---------------------------- MODULE Spec2Model ----------------------------
(***************************************************************************)
(* Pong (windagency/game-pong): the simulation core (game.ts, utils.ts),   *)
(* the input adapter (input.ts) and the entry point (main.ts) as one state *)
(* machine.                                                                *)
(*                                                                         *)
(* Numbers.  Every JavaScript number that is a length, a position or a     *)
(* speed is held in fixed point: an integer count of 1/Unit pixels.        *)
(* Products with a fractional factor are truncated toward zero (MulDiv),   *)
(* so negating an operand negates the result, as it does in IEEE           *)
(* arithmetic.  A Math.random() result is an integer of thousandths        *)
(* in 0..999, standing for a number in [0, 1).                             *)
(*                                                                         *)
(* Objects.  Every GameState object ever allocated is an element of        *)
(* `games`; `cur` is the index held in PongGame.gameState; `listeners`     *)
(* holds, in registration order, the index of the GameState captured by    *)
(* the closures of each setupInputHandlers call.                           *)
(***************************************************************************)
EXTENDS Integers, Sequences, FiniteSets, TLC

(* Fixed-point resolution of a number: units per pixel. *)
Unit == 1000

Abs(v) == IF v < 0 THEN -v ELSE v

(* Math.sign *)
Sign(v) == IF v > 0 THEN 1 ELSE IF v < 0 THEN -1 ELSE 0

Min(a, b) == IF a < b THEN a ELSE b

Max(a, b) == IF a > b THEN a ELSE b

(* v * n / d in fixed point, truncated toward zero. *)
MulDiv(v, n, d) == Sign(v) * Sign(n) * ((Abs(v) * Abs(n)) \div d)

(* The value null of winner. *)
null == "null"

---------------------------------------------------------------------------
(* config.ts *)

(* A variant of CONFIG: the ball is served, and capped, at                 *)
(* paddleWidth + 2 x ballRadius per frame.                                 *)
CONFIG_FastBall ==
  [ canvasWidth |-> 800 * Unit,
    canvasHeight |-> 600 * Unit,
    paddleWidth |-> 15 * Unit,
    paddleHeight |-> 100 * Unit,
    paddleSpeed |-> 8 * Unit,
    paddleMargin |-> 20 * Unit,
    ballRadius |-> 8 * Unit,
    ballInitialSpeed |-> 31 * Unit,
    ballSpeedIncreaseFactor |-> 1050,
    ballMaxSpeed |-> 31 * Unit,
    winningScore |-> 5 ]

CONFIG ==
  [ canvasWidth |-> 800 * Unit,
    canvasHeight |-> 600 * Unit,
    paddleWidth |-> 15 * Unit,
    paddleHeight |-> 100 * Unit,
    paddleSpeed |-> 8 * Unit,
    paddleMargin |-> 20 * Unit,
    ballRadius |-> 8 * Unit,
    ballInitialSpeed |-> 5 * Unit,
    ballSpeedIncreaseFactor |-> 1050,   \* 1.05, in thousandths
    ballMaxSpeed |-> 15 * Unit,
    winningScore |-> 5 ]

KEYS ==
  [ player1Up |-> "w",
    player1Down |-> "s",
    player2Up |-> "ArrowUp",
    player2Down |-> "ArrowDown",
    pause |-> "p",
    restart |-> "r" ]

(* String.prototype.toLowerCase on the key names that occur. *)
toLowerCase(k) ==
  CASE k = "W" -> "w"
    [] k = "S" -> "s"
    [] k = "P" -> "p"
    [] k = "R" -> "r"
    [] k = "ArrowUp" -> "arrowup"
    [] k = "ArrowDown" -> "arrowdown"
    [] OTHER -> k

---------------------------------------------------------------------------
(* utils.ts *)

clamp(value, min, max) == Max(min, Min(value, max))

(* A variant of checkAABBCollision: the first comparison admits equality. *)
checkAABBCollision_Inclusive(rect1, rect2) ==
  /\ rect1.x <= rect2.x + rect2.width
  /\ rect1.x + rect1.width > rect2.x
  /\ rect1.y < rect2.y + rect2.height
  /\ rect1.y + rect1.height > rect2.y

checkAABBCollision(rect1, rect2) ==
  /\ rect1.x < rect2.x + rect2.width
  /\ rect1.x + rect1.width > rect2.x
  /\ rect1.y < rect2.y + rect2.height
  /\ rect1.y + rect1.height > rect2.y

checkBallPaddleCollision(ball, paddle) ==
  LET ballRect == [ x |-> ball.x - ball.radius,
                    y |-> ball.y - ball.radius,
                    width |-> ball.radius * 2,
                    height |-> ball.radius * 2 ]
  IN  checkAABBCollision(ballRect, paddle)

---------------------------------------------------------------------------
(* game.ts *)

(* The `Math.random() > 0.5 ? 1 : -1` coin, on a draw r in thousandths. *)
Coin(r) == IF r > 500 THEN 1 ELSE -1

(* createInitialGameState; r1 and r2 are its two Math.random() results. *)
createInitialGameState(r1, r2) ==
  [ ball |->
      [ x |-> CONFIG.canvasWidth \div 2,
        y |-> CONFIG.canvasHeight \div 2,
        radius |-> CONFIG.ballRadius,
        speedX |-> CONFIG.ballInitialSpeed * Coin(r1),
        speedY |-> MulDiv(CONFIG.ballInitialSpeed, MulDiv(r2, 1600, 1000) - 800, 1000),
        initialSpeed |-> CONFIG.ballInitialSpeed ],
    paddleLeft |->
      [ id |-> "left",
        x |-> CONFIG.paddleMargin,
        y |-> CONFIG.canvasHeight \div 2 - CONFIG.paddleHeight \div 2,
        width |-> CONFIG.paddleWidth,
        height |-> CONFIG.paddleHeight,
        speed |-> CONFIG.paddleSpeed,
        dy |-> 0,
        score |-> 0 ],
    paddleRight |->
      [ id |-> "right",
        x |-> CONFIG.canvasWidth - CONFIG.paddleWidth - CONFIG.paddleMargin,
        y |-> CONFIG.canvasHeight \div 2 - CONFIG.paddleHeight \div 2,
        width |-> CONFIG.paddleWidth,
        height |-> CONFIG.paddleHeight,
        speed |-> CONFIG.paddleSpeed,
        dy |-> 0,
        score |-> 0 ],
    canvas |-> [ width |-> CONFIG.canvasWidth, height |-> CONFIG.canvasHeight ],
    gamePaused |-> FALSE,
    gameOver |-> FALSE,
    winningScore |-> CONFIG.winningScore,
    winner |-> null,
    keysPressed |->
      [ k \in { toLowerCase(KEYS[a]) : a \in DOMAIN KEYS } |-> FALSE ] ]

(* A variant of resetBall: no minimum is put under |speedY|. *)
resetBall_NoFloor(ball, serveDirection, r1, r2) ==
  LET randomFactor == MulDiv(r1, 800, 1000) - 400
      speedY0 == MulDiv(ball.initialSpeed, randomFactor, 1000)
  IN  [ ball EXCEPT !.x = CONFIG.canvasWidth \div 2,
                    !.y = CONFIG.canvasHeight \div 2,
                    !.speedX = ball.initialSpeed * serveDirection,
                    !.speedY = speedY0 ]

(* resetBall; r1 is the draw of randomFactor, r2 the draw of the coin  *)
(* that decides the sign when speedY came out as exactly zero.          *)
resetBall(ball, serveDirection, r1, r2) ==
  LET randomFactor == MulDiv(r1, 800, 1000) - 400
      speedY0 == MulDiv(ball.initialSpeed, randomFactor, 1000)
      floorY == MulDiv(ball.initialSpeed, 100, 1000)
      speedY1 == IF Abs(speedY0) < floorY
                 THEN floorY * Sign(IF speedY0 # 0 THEN speedY0 ELSE Coin(r2))
                 ELSE speedY0
  IN  [ ball EXCEPT !.x = CONFIG.canvasWidth \div 2,
                    !.y = CONFIG.canvasHeight \div 2,
                    !.speedX = ball.initialSpeed * serveDirection,
                    !.speedY = speedY1 ]

(* A variant of updatePaddlePosition: the lower limit is the field's       *)
(* height, the paddle's own height forgotten.                              *)
updatePaddlePosition_FieldHeight(paddle, canvasHeight) ==
  [ paddle EXCEPT !.y = clamp(paddle.y + paddle.dy * paddle.speed,
                              0, canvasHeight) ]

updatePaddlePosition(paddle, canvasHeight) ==
  [ paddle EXCEPT !.y = clamp(paddle.y + paddle.dy * paddle.speed,
                              0, canvasHeight - paddle.height) ]

(* A variant of handleBallPaddleCollision: the deflection is added to the  *)
(* speedY the ball came in with.                                           *)
handleBallPaddleCollision_AddsSpeedY(ball, paddle) ==
  LET reversed == ball.speedX * (-1)
      newSpeedXAbs == MulDiv(Abs(reversed), CONFIG.ballSpeedIncreaseFactor, 1000)
      deltaY == ball.y - (paddle.y + paddle.height \div 2)
      newSpeedY == ball.speedY + MulDiv(deltaY, 250, 1000)
  IN  [ ball EXCEPT
          !.speedX = Min(newSpeedXAbs, CONFIG.ballMaxSpeed) * Sign(reversed),
          !.speedY = clamp(newSpeedY, -CONFIG.ballMaxSpeed, CONFIG.ballMaxSpeed),
          !.x = IF paddle.id = "left"
                THEN paddle.x + paddle.width + ball.radius + Unit \div 10
                ELSE paddle.x - ball.radius - Unit \div 10 ]

(* A variant of handleBallPaddleCollision: the ball is put on the far side *)
(* of the paddle, the test of paddle.id inverted.                          *)
handleBallPaddleCollision_WrongSide(ball, paddle) ==
  LET reversed == ball.speedX * (-1)
      newSpeedXAbs == MulDiv(Abs(reversed), CONFIG.ballSpeedIncreaseFactor, 1000)
      deltaY == ball.y - (paddle.y + paddle.height \div 2)
      newSpeedY == MulDiv(deltaY, 250, 1000)
  IN  [ ball EXCEPT
          !.speedX = Min(newSpeedXAbs, CONFIG.ballMaxSpeed) * Sign(reversed),
          !.speedY = clamp(newSpeedY, -CONFIG.ballMaxSpeed, CONFIG.ballMaxSpeed),
          !.x = IF paddle.id # "left"
                THEN paddle.x + paddle.width + ball.radius + Unit \div 10
                ELSE paddle.x - ball.radius - Unit \div 10 ]

(* A variant of handleBallPaddleCollision: the increased speedX is not     *)
(* capped at ballMaxSpeed.                                                 *)
handleBallPaddleCollision_NoCap(ball, paddle) ==
  LET reversed == ball.speedX * (-1)
      newSpeedXAbs == MulDiv(Abs(reversed), CONFIG.ballSpeedIncreaseFactor, 1000)
      deltaY == ball.y - (paddle.y + paddle.height \div 2)
      newSpeedY == MulDiv(deltaY, 250, 1000)
  IN  [ ball EXCEPT
          !.speedX = newSpeedXAbs * Sign(reversed),
          !.speedY = clamp(newSpeedY, -CONFIG.ballMaxSpeed, CONFIG.ballMaxSpeed),
          !.x = IF paddle.id = "left"
                THEN paddle.x + paddle.width + ball.radius + Unit \div 10
                ELSE paddle.x - ball.radius - Unit \div 10 ]

handleBallPaddleCollision(ball, paddle) ==
  LET reversed == ball.speedX * (-1)
      newSpeedXAbs == MulDiv(Abs(reversed), CONFIG.ballSpeedIncreaseFactor, 1000)
      deltaY == ball.y - (paddle.y + paddle.height \div 2)
      newSpeedY == MulDiv(deltaY, 250, 1000)
  IN  [ ball EXCEPT
          !.speedX = Min(newSpeedXAbs, CONFIG.ballMaxSpeed) * Sign(reversed),
          !.speedY = clamp(newSpeedY, -CONFIG.ballMaxSpeed, CONFIG.ballMaxSpeed),
          !.x = IF paddle.id = "left"
                THEN paddle.x + paddle.width + ball.radius + Unit \div 10
                ELSE paddle.x - ball.radius - Unit \div 10 ]

(* A variant of checkWinCondition: the score has to exceed winningScore. *)
checkWinCondition_Strict(gameState) ==
  LET g1 == IF gameState.paddleLeft.score > gameState.winningScore
            THEN [ gameState EXCEPT !.gameOver = TRUE, !.winner = "Player 1" ]
            ELSE IF gameState.paddleRight.score > gameState.winningScore
            THEN [ gameState EXCEPT !.gameOver = TRUE, !.winner = "Player 2" ]
            ELSE gameState
  IN  IF g1.gameOver
      THEN [ g1 EXCEPT !.ball.speedX = 0, !.ball.speedY = 0 ]
      ELSE g1

(* A variant of checkWinCondition: the ball's velocity is left as it is. *)
checkWinCondition_NoStop(gameState) ==
  IF gameState.paddleLeft.score >= gameState.winningScore
  THEN [ gameState EXCEPT !.gameOver = TRUE, !.winner = "Player 1" ]
  ELSE IF gameState.paddleRight.score >= gameState.winningScore
  THEN [ gameState EXCEPT !.gameOver = TRUE, !.winner = "Player 2" ]
  ELSE gameState

checkWinCondition(gameState) ==
  LET g1 == IF gameState.paddleLeft.score >= gameState.winningScore
            THEN [ gameState EXCEPT !.gameOver = TRUE, !.winner = "Player 1" ]
            ELSE IF gameState.paddleRight.score >= gameState.winningScore
            THEN [ gameState EXCEPT !.gameOver = TRUE, !.winner = "Player 2" ]
            ELSE gameState
  IN  IF g1.gameOver
      THEN [ g1 EXCEPT !.ball.speedX = 0, !.ball.speedY = 0 ]
      ELSE g1

(* updateBall, lines 137-138: the ball moved by its velocity. *)
integrate(ball) ==
  [ ball EXCEPT !.x = ball.x + ball.speedX, !.y = ball.y + ball.speedY ]

(* updateBall, lines 141-147: which wall branch is taken. *)
wallHit(ball, canvas) ==
  IF ball.y - ball.radius < 0 THEN "top"
  ELSE IF ball.y + ball.radius > canvas.height THEN "bottom"
  ELSE "none"

(* A variant of wallBounce: the ball is put back on the boundary and its   *)
(* speedY is made to point away from the wall at the initial speed.        *)
wallBounce_Reset(ball, canvas, wall) ==
  IF wall = "top"
  THEN [ ball EXCEPT !.y = ball.radius, !.speedY = ball.initialSpeed ]
  ELSE IF wall = "bottom"
  THEN [ ball EXCEPT !.y = canvas.height - ball.radius,
                     !.speedY = -ball.initialSpeed ]
  ELSE ball

(* A variant of wallBounce: speedY is reversed and the ball is left where  *)
(* the integration put it.                                                 *)
wallBounce_NoClamp(ball, canvas, wall) ==
  IF wall = "top"
  THEN [ ball EXCEPT !.speedY = ball.speedY * (-1) ]
  ELSE IF wall = "bottom"
  THEN [ ball EXCEPT !.speedY = ball.speedY * (-1) ]
  ELSE ball

wallBounce(ball, canvas, wall) ==
  IF wall = "top"
  THEN [ ball EXCEPT !.y = ball.radius, !.speedY = ball.speedY * (-1) ]
  ELSE IF wall = "bottom"
  THEN [ ball EXCEPT !.y = canvas.height - ball.radius,
                     !.speedY = ball.speedY * (-1) ]
  ELSE ball

(* A variant of paddleHit: a paddle is handled whenever the ball overlaps  *)
(* it, whichever way the ball is moving.                                   *)
paddleHit_NoDirection(ball, paddleLeft, paddleRight) ==
  IF checkBallPaddleCollision(ball, paddleLeft) THEN "left"
  ELSE IF checkBallPaddleCollision(ball, paddleRight) THEN "right"
  ELSE "none"

(* updateBall, lines 151-155: which paddle, if any, is handled. *)
paddleHit(ball, paddleLeft, paddleRight) ==
  IF ball.speedX < 0 /\ checkBallPaddleCollision(ball, paddleLeft) THEN "left"
  ELSE IF ball.speedX > 0 /\ checkBallPaddleCollision(ball, paddleRight)
  THEN "right"
  ELSE "none"

(* updateBall, lines 158 and 162: which scoring branch is taken. *)
crossing(ball, canvas) ==
  IF ball.x + ball.radius < 0 THEN "left"
  ELSE IF ball.x - ball.radius > canvas.width THEN "right"
  ELSE "none"

(* A variant of scorePoint: the point goes to the paddle on the side crossed. *)
scorePoint_Swapped(gameState, crossed) ==
  IF crossed = "left"
  THEN checkWinCondition(
         [ gameState EXCEPT !.paddleLeft.score = gameState.paddleLeft.score + 1 ])
  ELSE IF crossed = "right"
  THEN checkWinCondition(
         [ gameState EXCEPT !.paddleRight.score = gameState.paddleRight.score + 1 ])
  ELSE gameState

(* updateBall, lines 159-160 and 163-164: the point and the win check. *)
scorePoint(gameState, crossed) ==
  IF crossed = "left"
  THEN checkWinCondition(
         [ gameState EXCEPT !.paddleRight.score = gameState.paddleRight.score + 1 ])
  ELSE IF crossed = "right"
  THEN checkWinCondition(
         [ gameState EXCEPT !.paddleLeft.score = gameState.paddleLeft.score + 1 ])
  ELSE gameState

(* updateBall, lines 161 and 165: the serveDirection passed to resetBall. *)
serveDirection(crossed) == IF crossed = "left" THEN 1 ELSE -1

(* updateBall, returned with a trace of what the call did:                 *)
(*   wall     "top" / "bottom" / "none"   the wall branch taken             *)
(*   bounce   "left" / "right" / "none"   the paddle handled                *)
(*   crossed  "left" / "right" / "none"   the scoring branch taken          *)
(*   winChecks, serves                    calls of checkWinCondition,       *)
(*                                        resetBall                         *)
updateBall(gameState, r1, r2) ==
  LET paddleLeft == gameState.paddleLeft
      paddleRight == gameState.paddleRight
      canvas == gameState.canvas
      b1 == integrate(gameState.ball)
      wall == wallHit(b1, canvas)
      b2 == wallBounce(b1, canvas, wall)
      bounce == paddleHit(b2, paddleLeft, paddleRight)
      b3 == IF bounce = "left" THEN handleBallPaddleCollision(b2, paddleLeft)
            ELSE IF bounce = "right" THEN handleBallPaddleCollision(b2, paddleRight)
            ELSE b2
      crossed == crossing(b3, canvas)
      g4 == scorePoint([ gameState EXCEPT !.ball = b3 ], crossed)
      serve == crossed # "none" /\ ~g4.gameOver
      g5 == IF serve
            THEN [ g4 EXCEPT !.ball =
                     resetBall(g4.ball, serveDirection(crossed), r1, r2) ]
            ELSE g4
  IN  [ state |-> g5,
        wall |-> wall,
        bounce |-> bounce,
        crossed |-> crossed,
        winChecks |-> IF crossed = "none" THEN 0 ELSE 1,
        serves |-> IF serve THEN 1 ELSE 0 ]

(* What updateGameState reports when it returns early. *)
NoUpdate(gameState) ==
  [ state |-> gameState, wall |-> "none", bounce |-> "none", crossed |-> "none",
    winChecks |-> 0, serves |-> 0 ]

(* A variant of updateGameState: the early return tests gamePaused only. *)
updateGameState_NoOverGate(gameState, r1, r2) ==
  IF gameState.gamePaused
  THEN NoUpdate(gameState)
  ELSE updateBall(
         [ gameState EXCEPT
             !.paddleLeft = updatePaddlePosition(gameState.paddleLeft,
                                                 gameState.canvas.height),
             !.paddleRight = updatePaddlePosition(gameState.paddleRight,
                                                  gameState.canvas.height) ],
         r1, r2)

(* A variant of updateGameState: the early return tests gameOver only. *)
updateGameState_NoPauseGate(gameState, r1, r2) ==
  IF gameState.gameOver
  THEN NoUpdate(gameState)
  ELSE updateBall(
         [ gameState EXCEPT
             !.paddleLeft = updatePaddlePosition(gameState.paddleLeft,
                                                 gameState.canvas.height),
             !.paddleRight = updatePaddlePosition(gameState.paddleRight,
                                                  gameState.canvas.height) ],
         r1, r2)

updateGameState(gameState, r1, r2) ==
  IF gameState.gamePaused \/ gameState.gameOver
  THEN NoUpdate(gameState)
  ELSE updateBall(
         [ gameState EXCEPT
             !.paddleLeft = updatePaddlePosition(gameState.paddleLeft,
                                                 gameState.canvas.height),
             !.paddleRight = updatePaddlePosition(gameState.paddleRight,
                                                  gameState.canvas.height) ],
         r1, r2)

---------------------------------------------------------------------------
(* input.ts *)

(* gameState.keysPressed[k] as a condition: a missing key is undefined. *)
Held(gameState, k) ==
  k \in DOMAIN gameState.keysPressed /\ gameState.keysPressed[k]

(* A variant of processPaddleInputs: the left paddle's down key is tested *)
(* before its up key.                                                     *)
processPaddleInputs_DownFirst(gameState) ==
  IF gameState.gamePaused \/ gameState.gameOver
  THEN [ gameState EXCEPT !.paddleLeft.dy = 0, !.paddleRight.dy = 0 ]
  ELSE [ gameState EXCEPT
           !.paddleLeft.dy =
              IF Held(gameState, toLowerCase(KEYS.player1Down)) THEN 1
              ELSE IF Held(gameState, toLowerCase(KEYS.player1Up)) THEN -1
              ELSE 0,
           !.paddleRight.dy =
              IF Held(gameState, toLowerCase(KEYS.player2Up)) THEN -1
              ELSE IF Held(gameState, toLowerCase(KEYS.player2Down)) THEN 1
              ELSE 0 ]

processPaddleInputs(gameState) ==
  IF gameState.gamePaused \/ gameState.gameOver
  THEN [ gameState EXCEPT !.paddleLeft.dy = 0, !.paddleRight.dy = 0 ]
  ELSE [ gameState EXCEPT
           !.paddleLeft.dy =
              IF Held(gameState, toLowerCase(KEYS.player1Up)) THEN -1
              ELSE IF Held(gameState, toLowerCase(KEYS.player1Down)) THEN 1
              ELSE 0,
           !.paddleRight.dy =
              IF Held(gameState, toLowerCase(KEYS.player2Up)) THEN -1
              ELSE IF Held(gameState, toLowerCase(KEYS.player2Down)) THEN 1
              ELSE 0 ]

(* One registered set of listeners (keydown, keyup, click) is the index of *)
(* the GameState its closures captured.  The program state the handlers    *)
(* work on is the record [games, cur, listeners].                          *)

(* setupInputHandlers(gameState, onRestart): three addEventListener calls  *)
(* whose closures capture the object at index gi.                          *)
setupInputHandlers(st, gi) ==
  [ st EXCEPT !.listeners = Append(st.listeners, gi) ]

(* A variant of keydownFlags: the pause key toggles whatever gameOver is. *)
keydownFlags_NoOverCheck(gameState, eventKey) ==
  LET key == toLowerCase(eventKey)
      g1 == [ gameState EXCEPT !.keysPressed =
                [ k \in DOMAIN gameState.keysPressed \cup {key} |->
                    IF k = key THEN TRUE ELSE gameState.keysPressed[k] ] ]
  IN  IF key = toLowerCase(KEYS.pause)
      THEN [ g1 EXCEPT !.gamePaused = ~g1.gamePaused ]
      ELSE g1

(* The keydown listener of the closure that captured games[gi], without    *)
(* its call of onRestart.                                                  *)
keydownFlags(gameState, eventKey) ==
  LET key == toLowerCase(eventKey)
      g1 == [ gameState EXCEPT !.keysPressed =
                [ k \in DOMAIN gameState.keysPressed \cup {key} |->
                    IF k = key THEN TRUE ELSE gameState.keysPressed[k] ] ]
  IN  IF key = toLowerCase(KEYS.pause) /\ ~g1.gameOver
      THEN [ g1 EXCEPT !.gamePaused = ~g1.gamePaused ]
      ELSE g1

(* Whether that keydown listener calls onRestart. *)
keydownRestarts(gameState, eventKey) ==
  toLowerCase(eventKey) = toLowerCase(KEYS.restart) /\ gameState.gameOver

(* The keyup listener. *)
keyupFlags(gameState, eventKey) ==
  LET key == toLowerCase(eventKey)
  IN  [ gameState EXCEPT !.keysPressed =
          [ k \in DOMAIN gameState.keysPressed \cup {key} |->
              IF k = key THEN FALSE ELSE gameState.keysPressed[k] ] ]

(* Whether the click listener of the restart button calls onRestart. *)
clickRestarts(gameState) == gameState.gameOver

---------------------------------------------------------------------------
(* main.ts *)

(* A variant of restartGame: the new GameState takes over the scores of    *)
(* the one it replaces.                                                    *)
restartGame_KeepScores(st, r1, r2) ==
  LET fresh == Len(st.games) + 1
      old == st.games[st.cur]
  IN  setupInputHandlers(
        [ st EXCEPT !.games = Append(st.games,
                                [ createInitialGameState(r1, r2) EXCEPT
                                    !.paddleLeft.score = old.paddleLeft.score,
                                    !.paddleRight.score = old.paddleRight.score ]),
                    !.cur = fresh ],
        fresh)

(* PongGame.restartGame; r1, r2 are the draws of createInitialGameState. *)
restartGame(st, r1, r2) ==
  LET fresh == Len(st.games) + 1
  IN  setupInputHandlers(
        [ st EXCEPT !.games = Append(st.games, createInitialGameState(r1, r2)),
                    !.cur = fresh ],
        fresh)

(* PongGame.gameLoop, one animation frame of it: processPaddleInputs, then *)
(* updateGameState; render reads the state and changes nothing.  r1, r2    *)
(* are the draws of resetBall, should the frame serve.                     *)
gameLoop(gameState, r1, r2) ==
  updateGameState(processPaddleInputs(gameState), r1, r2)

(* The number of frames run in a row without a paddle bounce or a score,   *)
(* after the frame that took gameState to res: a frame on a paused or      *)
(* finished game starts the count again.                                   *)
idleAfter(gameState, res, idle) ==
  IF gameState.gamePaused \/ gameState.gameOver THEN 0
  ELSE IF res.bounce # "none" \/ res.crossed # "none" THEN 0
  ELSE idle + 1

(* n consecutive frames between which no input event arrives. *)
RECURSIVE QuietFrames(_, _, _, _)
QuietFrames(gameState, n, r1, r2) ==
  IF n = 0 THEN gameState
  ELSE IF n = 1 THEN gameLoop(gameState, r1, r2).state
  ELSE LET half == QuietFrames(gameState, n \div 2, r1, r2)
       IN  IF half.gameOver \in BOOLEAN   \* evaluates half before going on
           THEN QuietFrames(half, n - n \div 2, r1, r2)
           ELSE half

---------------------------------------------------------------------------
(* n consecutive frames without input, with the count of idleAfter. *)
RECURSIVE QuietIdle(_, _, _, _, _)
QuietIdle(gameState, idle, n, r1, r2) ==
  IF n = 0 THEN [ state |-> gameState, idle |-> idle ]
  ELSE IF n = 1
  THEN LET res == gameLoop(gameState, r1, r2)
       IN  [ state |-> res.state, idle |-> idleAfter(gameState, res, idle) ]
  ELSE LET half == QuietIdle(gameState, idle, n \div 2, r1, r2)
       IN  IF half.idle \in Int   \* evaluates half before going on
           THEN QuietIdle(half.state, half.idle, n - n \div 2, r1, r2)
           ELSE half

----------------------------------------------------------------------------
(* The state machine *)

(* Math.random() results the model draws, in thousandths. *)
RandomDraws == {0, 500, 999}

(* event.key values the keyboard sends. *)
EventKeys == {"w", "ArrowDown", "P", "r"}

(* GameState objects allocated in one run, at most. *)
MaxGames == 3

(* Keyboard and button events delivered in one run, at most. *)
MaxInputEvents == 2

(* Frames run after the initial state, at most. *)
MaxFrames == 3

(* The moments at which the model starts watching a game: the program as   *)
(* constructed (frames = 0) and the program after `frames` frames without  *)
(* input, with i1, i2 the draws of createInitialGameState and s1, s2 the   *)
(* draws of every serve on the way.                                        *)
Moments ==
  { [ frames |-> 0, i1 |-> a, i2 |-> b, s1 |-> 0, s2 |-> 0 ] :
      a \in RandomDraws, b \in RandomDraws }
  \cup
  { [ frames |-> 71, i1 |-> 0, i2 |-> 500, s1 |-> 0, s2 |-> 0 ],
    [ frames |-> 71, i1 |-> 999, i2 |-> 500, s1 |-> 0, s2 |-> 0 ],
    [ frames |-> 73, i1 |-> 0, i2 |-> 0, s1 |-> 0, s2 |-> 0 ],
    [ frames |-> 73, i1 |-> 0, i2 |-> 999, s1 |-> 0, s2 |-> 0 ],
    [ frames |-> 81, i1 |-> 0, i2 |-> 51, s1 |-> 0, s2 |-> 0 ],
    [ frames |-> 1961, i1 |-> 0, i2 |-> 500, s1 |-> 0, s2 |-> 0 ],
    [ frames |-> 81, i1 |-> 0, i2 |-> 0, s1 |-> 0, s2 |-> 0 ],
    [ frames |-> 737, i1 |-> 0, i2 |-> 0, s1 |-> 0, s2 |-> 0 ],
    [ frames |-> 953, i1 |-> 999, i2 |-> 0, s1 |-> 400, s2 |-> 0 ] }

(* What the code looks up in the document: the elements of                *)
(* DOM_ELEMENT_IDS, and the canvas's 2D context.                           *)
DomElements ==
  { "canvas", "context", "pauseMessage", "gameOverMessage", "winnerMessage",
    "restartButton" }

VARIABLES
  games,      \* every GameState object allocated, in allocation order
  cur,        \* PongGame.gameState: an index into games
  listeners,  \* per setupInputHandlers call, the index of the captured object
  nEvents,    \* input events delivered so far
  nFrames,    \* frames run so far
  ev,         \* what the last operation did
  dom,        \* the document: which of the elements the code looks up exist
  phase,      \* "page": DOMContentLoaded is still to come; "running": the
              \* frame loop has been requested; "failed": startup threw;
              \* "call": one function is being called on drawn arguments
  idle        \* history: the frames run in a row, up to now, in which the
              \* authoritative game was simulated without a paddle bounce
              \* and without a score

vars == <<games, cur, listeners, nEvents, nFrames, ev, dom, phase, idle>>

gameState == games[cur]

Prog == [ games |-> games, cur |-> cur, listeners |-> listeners ]

NoEv ==
  [ op |-> "init", key |-> "", wall |-> "none", bounce |-> "none",
    crossed |-> "none", winChecks |-> 0, serves |-> 0, restarts |-> 0 ]

(* new PongGame(): createInitialGameState, then setupInputHandlers; then   *)
(* the frames of the moment.                                               *)
Init ==
  \E m \in Moments :
    /\ games = << QuietFrames(createInitialGameState(m.i1, m.i2),
                              m.frames, m.s1, m.s2) >>
    /\ cur = 1
    /\ listeners = << 1 >>
    /\ nEvents = 0
    /\ nFrames = 0
    /\ idle = 0
    /\ ev = NoEv
    /\ dom = [ e \in DomElements |-> TRUE ]
    /\ phase = "running"

(* One animation frame: the callback requested by start() and by the      *)
(* previous frame.                                                         *)
Tick ==
  /\ phase = "running"
  /\ nFrames < MaxFrames
  /\ \E r1, r2 \in RandomDraws :
       LET res == gameLoop(gameState, r1, r2)
       IN  /\ games' = [ games EXCEPT ![cur] = res.state ]
           /\ ev' = [ NoEv EXCEPT !.op = "tick", !.wall = res.wall,
                                  !.bounce = res.bounce, !.crossed = res.crossed,
                                  !.winChecks = res.winChecks,
                                  !.serves = res.serves ]
           /\ idle' = idleAfter(gameState, res, idle)
  /\ nFrames' = nFrames + 1
  /\ UNCHANGED <<cur, listeners, nEvents, dom, phase>>

(* The outcomes of one keydown listener, the one that captured index gi. *)
onKeydown(st, gi, eventKey) ==
  LET st1 == [ st EXCEPT !.games[gi] = keydownFlags(st.games[gi], eventKey) ]
  IN  IF keydownRestarts(st1.games[gi], eventKey)
      THEN { restartGame(st1, r1, r2) : r1 \in RandomDraws, r2 \in RandomDraws }
      ELSE { st1 }

onKeyup(st, gi, eventKey) ==
  { [ st EXCEPT !.games[gi] = keyupFlags(st.games[gi], eventKey) ] }

onClick(st, gi) ==
  IF clickRestarts(st.games[gi])
  THEN { restartGame(st, r1, r2) : r1 \in RandomDraws, r2 \in RandomDraws }
  ELSE { st }

Handle(kind, st, gi, eventKey) ==
  CASE kind = "keydown" -> onKeydown(st, gi, eventKey)
    [] kind = "keyup" -> onKeyup(st, gi, eventKey)
    [] kind = "click" -> onClick(st, gi)

(* EventTarget dispatch: the listeners registered when the event is        *)
(* dispatched run in registration order; one added meanwhile does not run  *)
(* for this event.  S is the set of outcomes so far, i the next listener,  *)
(* n the number registered at dispatch.                                    *)
RECURSIVE Dispatch(_, _, _, _, _)
Dispatch(kind, S, i, n, eventKey) ==
  IF i > n THEN S
  ELSE Dispatch(kind,
                UNION { Handle(kind, st, st.listeners[i], eventKey) : st \in S },
                i + 1, n, eventKey)

Deliver(kind, eventKey) ==
  /\ nEvents < MaxInputEvents
  /\ \E st \in Dispatch(kind, {Prog}, 1, Len(listeners), eventKey) :
       /\ Len(st.games) <= MaxGames
       /\ games' = st.games
       /\ cur' = st.cur
       /\ listeners' = st.listeners
       /\ ev' = [ NoEv EXCEPT !.op = kind, !.key = eventKey,
                              !.restarts = Len(st.games) - Len(games) ]
  /\ nEvents' = nEvents + 1
  /\ UNCHANGED <<nFrames, dom, phase, idle>>

KeyDown == \E k \in EventKeys : Deliver("keydown", k)

KeyUp == \E k \in EventKeys : Deliver("keyup", k)

Click == dom.restartButton /\ Deliver("click", "")

Next == Tick \/ KeyDown \/ KeyUp \/ Click

Spec == Init /\ [][Next]_vars

---------------------------------------------------------------------------
(* Startup: the page with any subset of the looked-up elements, before     *)
(* DOMContentLoaded; and, for the part of a game that lies too many frames *)
(* after startup, the moments of Init.                                     *)

(* A variant of initializeRenderer: the 2D context is not tested. *)
initializeRenderer_NoContextCheck(d) == d.canvas

(* renderer.ts, initializeRenderer: TRUE when it returns, FALSE when it    *)
(* throws.  Missing overlay elements are logged with console.warn only.    *)
initializeRenderer(d) == d.canvas /\ d.context

StartupInit ==
  /\ dom \in [ DomElements -> BOOLEAN ]
  /\ phase = "page"
  /\ games = << >>
  /\ cur = 0
  /\ listeners = << >>
  /\ nEvents = 0
  /\ nFrames = 0
  /\ idle = 0
  /\ ev = NoEv

(* The DOMContentLoaded listener: new PongGame() (initializeRenderer,      *)
(* createInitialGameState, setupInputHandlers) and game.start(); a throw   *)
(* of the constructor is caught and start() is not reached.                *)
DOMContentLoaded ==
  /\ phase = "page"
  /\ IF initializeRenderer(dom)
     THEN \E r1, r2 \in RandomDraws :
            LET st == setupInputHandlers(
                        [ games |-> << createInitialGameState(r1, r2) >>,
                          cur |-> 1,
                          listeners |-> << >> ],
                        1)
            IN  /\ games' = st.games
                /\ cur' = st.cur
                /\ listeners' = st.listeners
                /\ phase' = "running"
     ELSE /\ phase' = "failed"
          /\ UNCHANGED <<games, cur, listeners>>
  /\ ev' = [ NoEv EXCEPT !.op = "load" ]
  /\ UNCHANGED <<nEvents, nFrames, dom, idle>>

StartupNext == DOMContentLoaded \/ Next

SpecStartup == (StartupInit \/ Init) /\ [][StartupNext]_vars

---------------------------------------------------------------------------
(* processPaddleInputs as a function of its argument: the flags, the key  *)
(* map and the intents it finds are drawn from all their values.           *)

ControlKeyNames == { toLowerCase(KEYS[a]) : a \in DOMAIN KEYS }

InputsInit ==
  \E p \in BOOLEAN, o \in BOOLEAN, k \in [ControlKeyNames -> BOOLEAN],
     a \in {-1, 0, 1}, b \in {-1, 0, 1} :
    /\ games = << [ createInitialGameState(0, 0) EXCEPT
                      !.gamePaused = p, !.gameOver = o, !.keysPressed = k,
                      !.paddleLeft.dy = a, !.paddleRight.dy = b ] >>
    /\ cur = 1
    /\ listeners = << 1 >>
    /\ nEvents = 0
    /\ nFrames = 0
    /\ idle = 0
    /\ ev = NoEv
    /\ dom = [ e \in DomElements |-> TRUE ]
    /\ phase = "call"

ApplyInputs ==
  /\ games' = [ games EXCEPT ![cur] = processPaddleInputs(gameState) ]
  /\ ev' = [ NoEv EXCEPT !.op = "inputs" ]
  /\ UNCHANGED <<cur, listeners, nEvents, nFrames, dom, phase, idle>>

SpecInputs == InputsInit /\ [][ApplyInputs]_vars

---------------------------------------------------------------------------
(* checkAABBCollision as a function of its arguments: two GameEntity       *)
(* rectangles drawn from a grid on which they can be apart, touch along an *)
(* edge or at a corner, overlap and contain one another.  The two paddles  *)
(* of games[1] carry the rectangles; ev.key takes the two results.         *)

Rects == [ x : 0 .. 3, y : 0 .. 3, width : 1 .. 2, height : 1 .. 2 ]

AABBInit ==
  \E a \in Rects, b \in Rects :
    LET g == createInitialGameState(0, 0)
    IN  /\ games = << [ g EXCEPT
                         !.paddleLeft.x = a.x * Unit,
                         !.paddleLeft.y = a.y * Unit,
                         !.paddleLeft.width = a.width * Unit,
                         !.paddleLeft.height = a.height * Unit,
                         !.paddleRight.x = b.x * Unit,
                         !.paddleRight.y = b.y * Unit,
                         !.paddleRight.width = b.width * Unit,
                         !.paddleRight.height = b.height * Unit ] >>
        /\ cur = 1
        /\ listeners = << 1 >>
        /\ nEvents = 0
        /\ nFrames = 0
        /\ idle = 0
        /\ ev = [ NoEv EXCEPT !.op = "aabb?" ]
        /\ dom = [ e \in DomElements |-> TRUE ]
        /\ phase = "call"

ApplyAABB ==
  /\ ev.op = "aabb?"
  /\ ev' = [ NoEv EXCEPT
               !.op = "aabb",
               !.key = << checkAABBCollision(gameState.paddleLeft,
                                             gameState.paddleRight),
                          checkAABBCollision(gameState.paddleRight,
                                             gameState.paddleLeft) >> ]
  /\ UNCHANGED <<games, cur, listeners, nEvents, nFrames, dom, phase, idle>>

SpecAABB == AABBInit /\ [][ApplyAABB]_vars

---------------------------------------------------------------------------
(* Single calls: beside the program, one function called once on arguments *)
(* drawn from a set that holds values no run of the program produces.      *)
(* games[1] holds the argument before the call and the result after it.    *)

(* Paddle positions to call updatePaddlePosition on: every half step from  *)
(* above the field to below it.                                            *)
PaddleSeeds ==
  { k * (CONFIG.paddleSpeed \div 2) :
      k \in -4 .. (CONFIG.canvasHeight \div (CONFIG.paddleSpeed \div 2)) }

CallInit(op, arg) ==
  /\ games = << arg >>
  /\ cur = 1
  /\ listeners = << 1 >>
  /\ nEvents = 0
  /\ nFrames = 0
  /\ idle = 0
  /\ ev = [ NoEv EXCEPT !.op = op ]
  /\ dom = [ e \in DomElements |-> TRUE ]
  /\ phase = "call"

CallDone(op, result) ==
  /\ games' = [ games EXCEPT ![1] = result ]
  /\ ev' = [ NoEv EXCEPT !.op = op ]
  /\ UNCHANGED <<cur, listeners, nEvents, nFrames, dom, phase, idle>>

PaddleInit ==
  \E y \in PaddleSeeds, d \in {-1, 0, 1}, side \in {"paddleLeft", "paddleRight"} :
    CallInit("paddle?",
             [ createInitialGameState(0, 0) EXCEPT ![side].y = y, ![side].dy = d ])

(* updateGameState, lines 199-200, on the drawn paddles. *)
ApplyPaddle ==
  /\ phase = "call"
  /\ ev.op = "paddle?"
  /\ CallDone("paddle",
              [ gameState EXCEPT
                  !.paddleLeft = updatePaddlePosition(gameState.paddleLeft,
                                                      gameState.canvas.height),
                  !.paddleRight = updatePaddlePosition(gameState.paddleRight,
                                                       gameState.canvas.height) ])

(* Ball velocities to call handleBallPaddleCollision on, up to three times *)
(* ballMaxSpeed either way.                                                *)
BounceSpeeds ==
  LET m == { 0, Unit \div 2, CONFIG.ballInitialSpeed,
             (CONFIG.ballMaxSpeed * 1000) \div CONFIG.ballSpeedIncreaseFactor,
             (CONFIG.ballMaxSpeed * 1000) \div CONFIG.ballSpeedIncreaseFactor + 1,
             CONFIG.ballMaxSpeed, 3 * CONFIG.ballMaxSpeed }
  IN  m \cup { -v : v \in m }

(* Where the ball's centre is when the call is made, as an offset from the *)
(* paddle's centre line: inside the paddle's height, at its ends, and      *)
(* beyond the offsets at which deltaY * 0.25 reaches ballMaxSpeed.         *)
BounceOffsets ==
  LET h == CONFIG.paddleHeight \div 2
      m == { 0, 3, Unit, h \div 2, h, h + CONFIG.ballRadius - 1,
             4 * CONFIG.ballMaxSpeed, 4 * CONFIG.ballMaxSpeed + 4,
             5 * CONFIG.ballMaxSpeed }
  IN  m \cup { -v : v \in m }

BounceInit ==
  \E side \in {"paddleLeft", "paddleRight"},
     vx \in BounceSpeeds, vy \in BounceSpeeds, off \in BounceOffsets :
    LET g == createInitialGameState(0, 0)
        paddle == g[side]
    IN  CallInit(IF side = "paddleLeft" THEN "bounceLeft?" ELSE "bounceRight?",
                 [ g EXCEPT !.ball.x = paddle.x + paddle.width \div 2,
                            !.ball.y = paddle.y + paddle.height \div 2 + off,
                            !.ball.speedX = vx,
                            !.ball.speedY = vy ])

(* updateBall, lines 152 and 154: handleBallPaddleCollision on the drawn   *)
(* ball and the drawn paddle.                                              *)
ApplyBounce ==
  /\ phase = "call"
  /\ \/ /\ ev.op = "bounceLeft?"
        /\ CallDone("bounceLeft",
                    [ gameState EXCEPT !.ball =
                        handleBallPaddleCollision(gameState.ball,
                                                  gameState.paddleLeft) ])
     \/ /\ ev.op = "bounceRight?"
        /\ CallDone("bounceRight",
                    [ gameState EXCEPT !.ball =
                        handleBallPaddleCollision(gameState.ball,
                                                  gameState.paddleRight) ])

(* Ball heights to call updateGameState on: at and next to either wall. *)
WallHeights ==
  LET r == CONFIG.ballRadius
      m == { r, r + 1, r + Unit, r + CONFIG.ballInitialSpeed, r + CONFIG.ballMaxSpeed }
  IN  m \cup { CONFIG.canvasHeight - v : v \in m }

(* An active game with the ball next to a wall: in mid-field or on the     *)
(* face of the left paddle (overlapping it after integration, whichever    *)
(* way it moves), the paddle at the top of its range or centred.           *)
WallInit ==
  \E y \in WallHeights, vy \in BounceSpeeds, vx \in {-1, 1},
     atPaddle \in BOOLEAN, paddleY \in {0, CONFIG.canvasHeight \div 2 - CONFIG.paddleHeight \div 2} :
    LET g == createInitialGameState(0, 0)
    IN  /\ Abs(vy) <= CONFIG.ballMaxSpeed
        /\ CallInit("update?",
                    [ g EXCEPT !.ball.x = IF atPaddle
                                          THEN g.paddleLeft.x + g.paddleLeft.width
                                          ELSE g.ball.x,
                               !.ball.y = y,
                               !.ball.speedX = vx * CONFIG.ballInitialSpeed,
                               !.ball.speedY = vy,
                               !.paddleLeft.y = paddleY ])

(* updateGameState on the drawn state. *)
ApplyUpdate ==
  /\ phase = "call"
  /\ ev.op = "update?"
  /\ \E r1, r2 \in RandomDraws :
       LET res == updateGameState(gameState, r1, r2)
       IN  /\ games' = [ games EXCEPT ![cur] = res.state ]
           /\ ev' = [ NoEv EXCEPT !.op = "update", !.wall = res.wall,
                                  !.bounce = res.bounce, !.crossed = res.crossed,
                                  !.winChecks = res.winChecks,
                                  !.serves = res.serves ]
  /\ UNCHANGED <<cur, listeners, nEvents, nFrames, dom, phase, idle>>

(* Every Math.random() result, in thousandths. *)
AllDraws == 0 .. (1000 - 1)

(* A ball that has just crossed a boundary at some speed; the draws of the *)
(* serve are kept in ev.key until the call.                                *)
ServeInit ==
  \E r1 \in AllDraws, r2 \in {0, 999}, dir \in {-1, 1} :
    LET g == createInitialGameState(0, 0)
    IN  /\ games = << [ g EXCEPT
                         !.ball.x = IF dir = 1 THEN -g.ball.radius - Unit
                                    ELSE g.canvas.width + g.ball.radius + Unit,
                         !.ball.y = g.ball.radius,
                         !.ball.speedX = -dir * CONFIG.ballMaxSpeed,
                         !.ball.speedY = -CONFIG.ballMaxSpeed ] >>
        /\ cur = 1
        /\ listeners = << 1 >>
        /\ nEvents = 0
        /\ nFrames = 0
        /\ idle = 0
        /\ ev = [ NoEv EXCEPT !.op = "serve?", !.key = <<dir, r1, r2>> ]
        /\ dom = [ e \in DomElements |-> TRUE ]
        /\ phase = "call"

(* updateBall, lines 161 and 165: resetBall on the drawn ball. *)
ApplyServe ==
  /\ phase = "call"
  /\ ev.op = "serve?"
  /\ CallDone("serve",
              [ gameState EXCEPT !.ball =
                  resetBall(gameState.ball, ev.key[1], ev.key[2], ev.key[3]) ])

CallsInit == Init \/ PaddleInit \/ BounceInit \/ WallInit \/ ServeInit

CallsNext ==
  \/ (phase # "call" /\ Next)
  \/ ApplyPaddle
  \/ ApplyBounce
  \/ ApplyUpdate
  \/ ApplyServe

SpecCalls == CallsInit /\ [][CallsNext]_vars

---------------------------------------------------------------------------
(* A restart in mid-rally.  The first game is played to its end without   *)
(* input (738 frames) and restarted; the second game runs 202 frames, in   *)
(* which its ball bounces off a paddle once and is on its way across the   *)
(* field; then `r` is pressed and the third game runs 32 frames.  The      *)
(* states are produced by the program's own operations.                    *)
StallInit ==
  \E first \in { [ games |-> << QuietFrames(createInitialGameState(0, 0), 738, 0, 0) >>,
                    cur |-> 1,
                    listeners |-> << 1 >> ] } :
  \E second \in { st \in Dispatch("click", {first}, 1, 1, "") :
                     st.games[2] = createInitialGameState(0, 500) } :
  \E rally \in { QuietIdle(second.games[2], 0, 202, 0, 0) } :
  \E third \in { st \in Dispatch("keydown",
                                  { [ second EXCEPT !.games[2] = rally.state ] },
                                  1, 2, "r") :
                    /\ Len(st.games) = 3
                    /\ st.games[3] = createInitialGameState(0, 500) } :
  \E serve \in { QuietIdle(third.games[3], rally.idle, 32, 0, 0) } :
    /\ games = [ third.games EXCEPT ![3] = serve.state ]
    /\ cur = third.cur
    /\ listeners = third.listeners
    /\ nEvents = 0
    /\ nFrames = 0
    /\ idle = serve.idle
    /\ ev = NoEv
    /\ dom = [ e \in DomElements |-> TRUE ]
    /\ phase = "running"

SpecStall == (StallInit \/ Init) /\ [][Next]_vars

----------------------------------------------------------------------------
(* The ball's approach to a paddle: updateGameState called frame after     *)
(* frame on an active game whose ball is entirely in front of a paddle     *)
(* and moving toward it, until the ball is bounced or crosses the edge.    *)

(* |speedX| after k paddle bounces since the serve. *)
RECURSIVE SpeedAfter(_)
SpeedAfter(k) ==
  IF k = 0 THEN CONFIG.ballInitialSpeed
  ELSE Min(MulDiv(SpeedAfter(k - 1), CONFIG.ballSpeedIncreaseFactor, 1000),
           CONFIG.ballMaxSpeed)

(* Every |speedX| the ball can have, from the serve's to the cap. *)
ApproachSpeeds == { SpeedAfter(k) : k \in 0 .. 23 }

(* The distance between the ball's leading edge and the paddle's face when *)
(* the approach starts: touching, where a bounce leaves the ball, and up   *)
(* to one frame at the cap away.                                           *)
ApproachGaps ==
  { 0, Unit \div 10, CONFIG.ballInitialSpeed - 1, CONFIG.ballMaxSpeed - 1,
    CONFIG.ballMaxSpeed }

(* The ball's centre as an offset from the paddle's centre line: on it,    *)
(* level with the paddle's end, just overlapping and just clear of it.     *)
ApproachOffsets ==
  LET h == CONFIG.paddleHeight \div 2
  IN  { 0, -h, h + CONFIG.ballRadius - 1, h + CONFIG.ballRadius,
        -(h + CONFIG.ballRadius + CONFIG.ballMaxSpeed) }

(* checkAABBCollision, lines 227-228: the two comparisons on x. *)
overlapsHorizontally(ball, paddle) ==
  /\ ball.x - ball.radius < paddle.x + paddle.width
  /\ ball.x - ball.radius + ball.radius * 2 > paddle.x

ApproachInit ==
  \E side \in {"paddleLeft", "paddleRight"}, v \in ApproachSpeeds,
     gap \in ApproachGaps, off \in ApproachOffsets,
     vy \in {-3 * Unit, 0, 3 * Unit}, d \in {-1, 0, 1} :
    LET g == createInitialGameState(0, 0)
        paddle == g[side]
        left == side = "paddleLeft"
    IN  /\ games = << [ g EXCEPT
                         !.ball.x = IF left
                                    THEN paddle.x + paddle.width + g.ball.radius + gap
                                    ELSE paddle.x - g.ball.radius - gap,
                         !.ball.y = paddle.y + paddle.height \div 2 + off,
                         !.ball.speedX = IF left THEN -v ELSE v,
                         !.ball.speedY = vy,
                         ![side].dy = d ] >>
        /\ cur = 1
        /\ listeners = << 1 >>
        /\ nEvents = 0
        /\ nFrames = 0
        /\ idle = 0
        /\ ev = [ NoEv EXCEPT !.op = "approach?" ]
        /\ dom = [ e \in DomElements |-> TRUE ]
        /\ phase = "call"

(* One more frame's updateGameState; ev.key records whether the ball has   *)
(* overlapped the paddle it moves toward, horizontally, at the collision   *)
(* test of this frame or of an earlier one of the approach.                *)
ApproachTick ==
  /\ phase = "call"
  /\ \/ ev.op = "approach?"
     \/ ev.op = "update" /\ ev.bounce = "none" /\ ev.crossed = "none"
  /\ \E r1, r2 \in RandomDraws :
       LET res == updateGameState(gameState, r1, r2)
           canvas == gameState.canvas
           b1 == integrate(gameState.ball)
           b2 == wallBounce(b1, canvas, wallHit(b1, canvas))
           toward == IF b2.speedX < 0 THEN gameState.paddleLeft
                     ELSE gameState.paddleRight
       IN  /\ games' = [ games EXCEPT ![cur] = res.state ]
           /\ ev' = [ NoEv EXCEPT !.op = "update", !.wall = res.wall,
                                  !.bounce = res.bounce, !.crossed = res.crossed,
                                  !.winChecks = res.winChecks,
                                  !.serves = res.serves,
                                  !.key = IF overlapsHorizontally(b2, toward)
                                          THEN "overlapped" ELSE ev.key ]
  /\ UNCHANGED <<cur, listeners, nEvents, nFrames, dom, phase, idle>>

SpecApproach == ApproachInit /\ [][ApproachTick]_vars

----------------------------------------------------------------------------
(* Properties *)

Games == 1 .. Len(games)

(* C1: the authoritative GameState is replaced only when the one that is   *)
(* authoritative at that moment has gameOver = TRUE; a restart key press   *)
(* during an active game leaves it in place.                               *)
C1_RestartOnlyWhenOver == [][cur' # cur => games[cur].gameOver]_vars

(* What game-over freezes: ball position and velocity, both paddles'       *)
(* positions, both scores, winner and the two flags.                       *)
Frozen(g) ==
  << g.ball.x, g.ball.y, g.ball.speedX, g.ball.speedY,
     g.paddleLeft.x, g.paddleLeft.y, g.paddleRight.x, g.paddleRight.y,
     g.paddleLeft.score, g.paddleRight.score, g.winner,
     g.gameOver, g.gamePaused >>

(* C2: game-over is terminal within a GameState: once gameOver is TRUE it  *)
(* stays TRUE, and no later step, a frame's updateGameState included,      *)
(* changes ball, paddle positions, scores, winner or the flags.            *)
C2_GameOverTerminal ==
  [][\A i \in Games :
       games[i].gameOver =>
         /\ games'[i].gameOver
         /\ Frozen(games'[i]) = Frozen(games[i])]_vars

(* C2's case: a frame has run on a game that was over before it. *)
C2_Witness ==
  /\ ev.op = "tick"
  /\ ev.crossed = "none"
  /\ gameState.gameOver
  /\ gameState.ball.x + gameState.ball.radius < 0

(* C3: whenever gameOver is TRUE, as every frame leaves and renders the    *)
(* state, the ball's velocity is (0, 0) and both paddles' dy are 0.        *)
C3_FrozenWhenOver ==
  gameState.gameOver =>
    /\ gameState.ball.speedX = 0
    /\ gameState.ball.speedY = 0
    /\ gameState.paddleLeft.dy = 0
    /\ gameState.paddleRight.dy = 0

(* C4: in every GameState, gameOver holds exactly when a score has reached *)
(* winningScore; winner is Player 1 exactly when the left score has,       *)
(* Player 2 exactly when the right score has, null exactly when the game   *)
(* is not over; and a left score of winningScore against 0 comes with      *)
(* gameOver, winner Player 1 and a ball at rest.                           *)
C4_WinCondition ==
  \A i \in Games :
    LET g == games[i]
        leftWon == g.paddleLeft.score >= g.winningScore
        rightWon == g.paddleRight.score >= g.winningScore
    IN  /\ g.gameOver <=> (leftWon \/ rightWon)
        /\ (g.winner = "Player 1") <=> leftWon
        /\ (g.winner = "Player 2") <=> rightWon
        /\ (g.winner = null) <=> ~g.gameOver
        /\ (g.paddleLeft.score = g.winningScore /\ g.paddleRight.score = 0) =>
             /\ g.gameOver
             /\ g.winner = "Player 1"
             /\ g.ball.speedX = 0
             /\ g.ball.speedY = 0

(* C4's case: the frame of the winningScore-th crossing of the right       *)
(* boundary, the right paddle never having scored.                         *)
C4_Witness ==
  /\ ev.op = "tick"
  /\ ev.crossed = "right"
  /\ gameState.paddleLeft.score = gameState.winningScore
  /\ gameState.paddleRight.score = 0
  /\ gameState.gameOver

(* C5: one step changes at most one score and by exactly +1: a frame in   *)
(* which the ball has crossed the left boundary gives the point to the     *)
(* right paddle only, the right boundary to the left paddle only, no       *)
(* crossing to nobody; no score ever decreases; the win check runs at most *)
(* once per frame.                                                         *)
C5_ExclusiveScoring ==
  [][\A i \in Games :
       LET dl == games'[i].paddleLeft.score - games[i].paddleLeft.score
           dr == games'[i].paddleRight.score - games[i].paddleRight.score
           c == IF i = cur /\ ev'.op = "tick" THEN ev'.crossed ELSE "none"
       IN  /\ c = "left" => (dl = 0 /\ dr = 1)
           /\ c = "right" => (dl = 1 /\ dr = 0)
           /\ c = "none" => (dl = 0 /\ dr = 0)
           /\ ev'.winChecks <= 1]_vars

(* C5's case: a frame in which the ball crossed the left boundary. *)
C5_Witness ==
  /\ ev.op = "tick"
  /\ ev.crossed = "left"
  /\ ev.winChecks = 1
  /\ gameState.paddleRight.score >= 1

(* C6: after a score that does not end the game the ball is served toward  *)
(* the paddle that was scored against: speedX < 0 when the ball crossed    *)
(* the left boundary, speedX > 0 when it crossed the right one.            *)
C6_ServeTowardScoredUpon ==
  (ev.op = "tick" /\ ev.serves = 1) =>
    /\ ev.crossed = "left" => gameState.ball.speedX < 0
    /\ ev.crossed = "right" => gameState.ball.speedX > 0

(* C7: every registered input handler works on the authoritative           *)
(* GameState: none reads or writes a discarded one.                        *)
C7_HandlersFollowCurrent ==
  \A i \in 1 .. Len(listeners) : listeners[i] = cur

(* What a pause must leave alone: ball position and velocity, both         *)
(* paddles' y, both scores, gameOver and winner.                           *)
Simulated(g) ==
  << g.ball.x, g.ball.y, g.ball.speedX, g.ball.speedY,
     g.paddleLeft.y, g.paddleRight.y,
     g.paddleLeft.score, g.paddleRight.score, g.gameOver, g.winner >>

(* C8: while gamePaused is TRUE no step, a frame's updateGameState and the *)
(* key events between frames included, changes ball, paddle y, scores,     *)
(* gameOver or winner; so the step that unpauses resumes from exactly the  *)
(* state in which the game was paused.                                     *)
C8_PausedIsFrozen ==
  [][\A i \in Games :
       games[i].gamePaused => Simulated(games'[i]) = Simulated(games[i])]_vars

(* C8's case: a frame has run on a paused, unfinished game while a         *)
(* movement key was held.                                                  *)
C8_Witness ==
  /\ ev.op = "tick"
  /\ gameState.gamePaused
  /\ ~gameState.gameOver
  /\ Held(gameState, "w")

(* C9: a pause key-down leaves gamePaused of the authoritative GameState   *)
(* as it is when that state is over, flips it when it is not, and changes  *)
(* nothing else of it but the key map entry of the pause key.              *)
C9_PauseKey ==
  [][(ev'.op = "keydown" /\ toLowerCase(ev'.key) = "p") =>
       LET g == games[cur]
           h == games'[cur]
       IN  /\ cur' = cur
           /\ g.gameOver => h.gamePaused = g.gamePaused
           /\ ~g.gameOver => h.gamePaused = ~g.gamePaused
           /\ h = [ g EXCEPT !.gamePaused = h.gamePaused,
                             !.keysPressed = h.keysPressed ]
           /\ h.keysPressed =
                [ k \in DOMAIN g.keysPressed \cup {"p"} |->
                    IF k = "p" THEN TRUE ELSE g.keysPressed[k] ]]_vars

(* C9's case: a pause key-down has been delivered to a game that is over.  *)
C9_Witness ==
  /\ ev.op = "keydown"
  /\ ev.key = "P"
  /\ gameState.gameOver
  /\ ~gameState.gamePaused
  /\ Held(gameState, "p")

(* C10: after processPaddleInputs both dy are 0 if the game is paused or   *)
(* over; otherwise a paddle's dy is -1 if its up key is held (its down key *)
(* held or not), +1 if only its down key is held, 0 if neither is; dy is   *)
(* in {-1, 0, 1} and depends on that paddle's own keys only.               *)
C10_PaddleIntent ==
  ev.op = "inputs" =>
    LET g == gameState
        k == g.keysPressed
    IN  /\ g.paddleLeft.dy \in {-1, 0, 1}
        /\ g.paddleRight.dy \in {-1, 0, 1}
        /\ (g.gamePaused \/ g.gameOver) =>
             (g.paddleLeft.dy = 0 /\ g.paddleRight.dy = 0)
        /\ ~(g.gamePaused \/ g.gameOver) =>
             /\ k["w"] => g.paddleLeft.dy = -1
             /\ (~k["w"] /\ k["s"]) => g.paddleLeft.dy = 1
             /\ (~k["w"] /\ ~k["s"]) => g.paddleLeft.dy = 0
             /\ k["arrowup"] => g.paddleRight.dy = -1
             /\ (~k["arrowup"] /\ k["arrowdown"]) => g.paddleRight.dy = 1
             /\ (~k["arrowup"] /\ ~k["arrowdown"]) => g.paddleRight.dy = 0

(* C10's case: processPaddleInputs has run on an active game with both     *)
(* left keys held and only the right down key held.                        *)
C10_Witness ==
  /\ ev.op = "inputs"
  /\ ~gameState.gamePaused
  /\ ~gameState.gameOver
  /\ gameState.keysPressed["w"]
  /\ gameState.keysPressed["s"]
  /\ ~gameState.keysPressed["arrowup"]
  /\ gameState.keysPressed["arrowdown"]
  /\ gameState.paddleLeft.dy = -1
  /\ gameState.paddleRight.dy = 1

(* A paddle lies fully inside the field. *)
InField(paddle, canvas) ==
  /\ 0 <= paddle.y
  /\ paddle.y <= canvas.height - paddle.height

(* C11: after every paddle position update, whatever y it started from and *)
(* for every dy in {-1, 0, 1}, 0 <= y <= field height - paddle height; so  *)
(* in every state of the program both paddles of every GameState lie       *)
(* inside the field; and the update of a paddle at y = 0 with dy = -1      *)
(* leaves it at y = 0.                                                     *)
C11_PaddleInField ==
  /\ [](ev.op # "paddle?" =>
          \A i \in Games :
            /\ InField(games[i].paddleLeft, games[i].canvas)
            /\ InField(games[i].paddleRight, games[i].canvas))
  /\ [][\A i \in Games :
          \A side \in {"paddleLeft", "paddleRight"} :
            (/\ ev'.op \in {"paddle", "tick"}
             /\ games[i][side].y = 0
             /\ games'[i][side].dy = -1
             /\ ~games[i].gamePaused
             /\ ~games[i].gameOver
             /\ i = cur)
            => games'[i][side].y = 0]_vars

(* C11's case: updatePaddlePosition has been called on a paddle with       *)
(* dy = -1 and has left it at the upper end of its range.                  *)
C11_Witness ==
  /\ ev.op = "paddle"
  /\ gameState.paddleLeft.dy = -1
  /\ gameState.paddleLeft.y = 0

(* C12: after handleBallPaddleCollision, whatever speedX and speedY the    *)
(* ball came in with (three times ballMaxSpeed included), |speedX| and     *)
(* |speedY| are at most ballMaxSpeed; and in every state of the program,   *)
(* after any mix of wall bounces, paddle bounces and serves, both          *)
(* magnitudes of every GameState's ball are at most ballMaxSpeed.          *)
C12_SpeedCapped ==
  ev.op \notin {"bounceLeft?", "bounceRight?"} =>
    \A i \in Games :
      /\ Abs(games[i].ball.speedX) <= CONFIG.ballMaxSpeed
      /\ Abs(games[i].ball.speedY) <= CONFIG.ballMaxSpeed

(* C12's case: in the program, a paddle bounce has brought the ball to     *)
(* ballMaxSpeed.                                                           *)
C12_Witness ==
  /\ ev.op = "tick"
  /\ ev.bounce = "left"
  /\ gameState.ball.speedX = CONFIG.ballMaxSpeed

(* The last step was an updateGameState: a frame's, or a single call. *)
Updated(e) == e.op \in {"tick", "update"}

(* What the wall branch leaves: the ball on the boundary, speedY negated. *)
Reflected(before, after, wall) ==
  /\ wall = "top" => after.y = after.radius
  /\ wall = "bottom" => after.y = CONFIG.canvasHeight - after.radius
  /\ after.speedY = -before.speedY

(* C13, as stated: in every tick of an active game in which the            *)
(* integrated ball has y - radius < 0, after updateGameState ball.y is     *)
(* radius and speedY is the negation of its value before; likewise         *)
(* fieldHeight - radius and negation when y + radius > field height.       *)
C13_WallBounceAlways ==
  [][(ev'.op = "tick" /\ ev'.wall # "none") =>
       Reflected(games[cur].ball, games'[cur].ball, ev'.wall)]_vars

(* C13, amended: the same, for the ticks in which the wall branch is       *)
(* followed by neither a paddle bounce nor a score.                        *)
C13_WallBounce ==
  [][(Updated(ev') /\ ev'.wall # "none"
        /\ ev'.bounce = "none" /\ ev'.crossed = "none") =>
       Reflected(games[cur].ball, games'[cur].ball, ev'.wall)]_vars

(* C13's case: a frame of the program in which the ball, 74 frames after   *)
(* the start, has reached the bottom wall and has been turned back.        *)
C13_Witness ==
  /\ ev.op = "tick"
  /\ ev.wall = "bottom"
  /\ ev.bounce = "none"
  /\ ev.crossed = "none"
  /\ gameState.ball.y = CONFIG.canvasHeight - CONFIG.ballRadius
  /\ gameState.ball.speedY < 0

(* C14: after every score that does not end the game, and after resetBall  *)
(* on every value of its draws, the ball is at the field's centre,         *)
(* |speedX| is initialSpeed and 0.1 x initialSpeed <= |speedY| <=          *)
(* 0.4 x initialSpeed: no serve is flat, the one whose draw gives exactly  *)
(* zero included.                                                          *)
C14_ServeNeverFlat ==
  ((Updated(ev) /\ ev.serves = 1) \/ ev.op = "serve") =>
    LET ball == gameState.ball
    IN  /\ ball.x = CONFIG.canvasWidth \div 2
        /\ ball.y = CONFIG.canvasHeight \div 2
        /\ Abs(ball.speedX) = ball.initialSpeed
        /\ MulDiv(ball.initialSpeed, 100, 1000) <= Abs(ball.speedY)
        /\ Abs(ball.speedY) <= MulDiv(ball.initialSpeed, 400, 1000)

(* C14's case: a frame of the program has scored without ending the game   *)
(* and has served with the minimum |speedY|, upward.                       *)
C14_Witness ==
  /\ ev.op = "tick"
  /\ ev.serves = 1
  /\ ~gameState.gameOver
  /\ gameState.ball.speedY = MulDiv(gameState.ball.initialSpeed, 100, 1000)

(* C15: a paddle bounces the ball only in a tick in which speedX points    *)
(* toward it, and leaves speedX pointing away from it; within a GameState  *)
(* speedX turns from away to toward a paddle only by the other paddle's    *)
(* bounce or by a serve, so the paddle that has just bounced the ball      *)
(* cannot bounce it again before one of the two has happened.              *)
C15_NoDoubleBounce ==
  [][/\ Updated(ev') =>
          LET before == games[cur].ball
              after == games'[cur].ball
          IN  /\ ev'.bounce = "left" => (before.speedX < 0 /\ after.speedX > 0)
              /\ ev'.bounce = "right" => (before.speedX > 0 /\ after.speedX < 0)
     /\ ev'.op \notin {"bounceLeft", "bounceRight", "serve"} =>
          \A i \in Games :
            LET turned == Updated(ev') /\ i = cur
            IN  /\ (games[i].ball.speedX >= 0 /\ games'[i].ball.speedX < 0) =>
                     (turned /\ (ev'.bounce = "right" \/ ev'.serves = 1))
                /\ (games[i].ball.speedX <= 0 /\ games'[i].ball.speedX > 0) =>
                     (turned /\ (ev'.bounce = "left" \/ ev'.serves = 1))]_vars

(* C15's case: the frame after the one in which the left paddle bounced    *)
(* the ball: the ball moves away from the paddle and is not bounced.       *)
C15_Witness ==
  /\ ev.op = "tick"
  /\ ev.bounce = "none"
  /\ gameState.ball.speedX > gameState.ball.initialSpeed
  /\ gameState.ball.x =
       gameState.paddleLeft.x + gameState.paddleLeft.width
         + gameState.ball.radius + Unit \div 10 + gameState.ball.speedX

(* The bounce C16 describes, of the ball `before` (integrated, moving      *)
(* toward the paddle and overlapping it) into the ball `after`.            *)
Bounced(before, after, paddle) ==
  LET faster == (Abs(before.speedX) * 105) \div 100
      capped == IF faster > 15 * Unit THEN 15 * Unit ELSE faster
  IN  /\ Abs(after.speedX) = capped
      /\ before.speedX < 0 => after.speedX > 0
      /\ before.speedX > 0 => after.speedX < 0
      /\ before.speedX = -5 * Unit => after.speedX = 5250
      /\ paddle.id = "left" =>
           after.x = paddle.x + paddle.width + after.radius + 100
      /\ paddle.id = "right" =>
           after.x = paddle.x - after.radius - 100
      /\ ~checkBallPaddleCollision(after, paddle)

(* C16: when the ball, moving toward a paddle, overlaps it after           *)
(* integration, the bounce gives speedX the opposite sign and the          *)
(* magnitude min(|speedX| x 1.05, ballMaxSpeed) (-5 becomes +5.25) and     *)
(* puts the ball at paddle.x + paddle.width + radius + 0.1 (left paddle)   *)
(* or paddle.x - radius - 0.1 (right paddle), where its bounding square    *)
(* does not overlap the paddle.                                            *)
C16_BounceResponse ==
  [][/\ (Updated(ev') /\ ev'.bounce = "left") =>
          Bounced(games[cur].ball, games'[cur].ball, games'[cur].paddleLeft)
     /\ (Updated(ev') /\ ev'.bounce = "right") =>
          Bounced(games[cur].ball, games'[cur].ball, games'[cur].paddleRight)
     /\ (/\ ev'.op = "bounceLeft"
         /\ games[cur].ball.speedX < 0
         /\ checkBallPaddleCollision(games[cur].ball, games[cur].paddleLeft)) =>
          Bounced(games[cur].ball, games'[cur].ball, games'[cur].paddleLeft)
     /\ (/\ ev'.op = "bounceRight"
         /\ games[cur].ball.speedX > 0
         /\ checkBallPaddleCollision(games[cur].ball, games[cur].paddleRight)) =>
          Bounced(games[cur].ball, games'[cur].ball, games'[cur].paddleRight)]_vars

(* C16's case: a frame of the program in which the ball, coming in at      *)
(* speedX = -5, has been bounced by the left paddle.                       *)
C16_Witness ==
  /\ ev.op = "tick"
  /\ ev.bounce = "left"
  /\ gameState.ball.speedX = 5250
  /\ gameState.ball.x = 43100

(* The frame loop has not been started and no frame has run. *)
NeverStarted ==
  /\ phase # "running"
  /\ nFrames = 0
  /\ ev.op # "tick"
  /\ games = << >>

(* C17, as stated: if the canvas, its 2D context, or any of the overlay    *)
(* elements (pause, game-over, winner message) is missing at startup, the  *)
(* frame loop is never started and no tick or render ever runs.            *)
C17_MissingElementFatal ==
  (\E e \in {"canvas", "context", "pauseMessage", "gameOverMessage",
              "winnerMessage"} : ~dom[e])
    => NeverStarted

(* C17, amended: if the canvas or its 2D context is missing at startup,    *)
(* the frame loop is never started and no tick or render ever runs; with   *)
(* both present, startup succeeds whichever overlay elements are missing.  *)
C17_MissingCanvasFatal ==
  /\ (~dom.canvas \/ ~dom.context) => NeverStarted
  /\ (dom.canvas /\ dom.context /\ phase # "page") => phase = "running"

(* C17's case: DOMContentLoaded has been handled on a page that has the    *)
(* canvas but no 2D context, and input has arrived since.                  *)
C17_Witness ==
  /\ dom.canvas
  /\ ~dom.context
  /\ phase = "failed"
  /\ nEvents > 0

(* A GameState as C18 describes it. *)
FreshState(g) ==
  /\ g.paddleLeft.score = 0
  /\ g.paddleRight.score = 0
  /\ g.gameOver = FALSE
  /\ g.gamePaused = FALSE
  /\ g.winner = null
  /\ g.paddleLeft.dy = 0
  /\ g.paddleRight.dy = 0
  /\ g.paddleLeft.x = 20 * Unit
  /\ g.paddleRight.x = (800 - 15 - 20) * Unit
  /\ g.paddleLeft.y = 250 * Unit
  /\ g.paddleRight.y = 250 * Unit
  /\ g.ball.x = 400 * Unit
  /\ g.ball.y = 300 * Unit
  /\ Abs(g.ball.speedX) = 5 * Unit
  /\ Abs(g.ball.speedY) <= 4 * Unit
  /\ DOMAIN g.keysPressed = {"w", "s", "arrowup", "arrowdown", "p", "r"}
  /\ \A k \in DOMAIN g.keysPressed : g.keysPressed[k] = FALSE

(* C18: right after startup has made the first GameState, and right after  *)
(* every restart, the authoritative GameState is wholly fresh: scores 0,   *)
(* not over, not paused, no winner, both dy 0, paddles centred at their    *)
(* margins, ball at the centre with |speedX| = initialSpeed and            *)
(* |speedY| <= 0.8 x initialSpeed, every control key in the key map, lower *)
(* case, with value FALSE.                                                 *)
C18_FreshAfterRestart ==
  ((ev.op = "load" /\ phase = "running") \/ ev.restarts >= 1) =>
    FreshState(gameState)

(* C18's case: a restart key-down has replaced a finished game in which    *)
(* the right paddle had won.                                               *)
C18_Witness ==
  /\ ev.op = "keydown"
  /\ ev.restarts = 1
  /\ cur = 2
  /\ games[1].gameOver
  /\ games[1].paddleRight.score = games[1].winningScore
  /\ Held(games[1], "r")

(* C19: in every GameState at most one paddle's score has reached          *)
(* winningScore and no score exceeds it; so whenever the simulation calls  *)
(* checkWinCondition, on the scores the frame leaves behind, at most one   *)
(* of its two win branches is open.                                        *)
C19_OneWinner ==
  \A i \in Games :
    LET g == games[i]
    IN  /\ ~(g.paddleLeft.score >= g.winningScore
              /\ g.paddleRight.score >= g.winningScore)
        /\ g.paddleLeft.score <= g.winningScore
        /\ g.paddleRight.score <= g.winningScore

(* C19's case: frames have run on a game that the right paddle won by      *)
(* winningScore to winningScore - 1.                                       *)
C19_Witness ==
  /\ ev.op = "tick"
  /\ nFrames >= 2
  /\ gameState.paddleRight.score = gameState.winningScore
  /\ gameState.paddleLeft.score = gameState.winningScore - 1

(* C20: the pause trigger is edge-triggered: in an active game a pause     *)
(* key-down that arrives while the key is already down (no key-up of it    *)
(* since the last key-down: the auto-repeat of a held key) leaves          *)
(* gamePaused as it is, so that one press flips it exactly once.           *)
C20_PauseEdgeTriggered ==
  [][(/\ ev'.op = "keydown"
      /\ toLowerCase(ev'.key) = toLowerCase(KEYS.pause)
      /\ cur' = cur
      /\ ~games[cur].gameOver
      /\ Held(games[cur], toLowerCase(KEYS.pause)))
     => games'[cur].gamePaused = games[cur].gamePaused]_vars

(* The length two intervals [lo1, lo1 + len1] and [lo2, lo2 + len2] have   *)
(* in common; zero or less when they touch or are apart.                   *)
Shared(lo1, len1, lo2, len2) == Min(lo1 + len1, lo2 + len2) - Max(lo1, lo2)

(* C21: checkAABBCollision(a, b) = checkAABBCollision(b, a) for every pair *)
(* of rectangles; it is TRUE exactly when a.x < b.x + b.width,             *)
(* a.x + a.width > b.x, a.y < b.y + b.height and a.y + a.height > b.y,     *)
(* that is when the two share a positive area: rectangles that only touch  *)
(* along an edge or at a corner give FALSE.                                *)
C21_AABBSymmetric ==
  ev.op = "aabb" =>
    LET a == gameState.paddleLeft
        b == gameState.paddleRight
        ab == ev.key[1]
        ba == ev.key[2]
        w == Shared(a.x, a.width, b.x, b.width)
        h == Shared(a.y, a.height, b.y, b.height)
    IN  /\ ab = ba
        /\ ab <=> (/\ a.x < b.x + b.width
                   /\ a.x + a.width > b.x
                   /\ a.y < b.y + b.height
                   /\ a.y + a.height > b.y)
        /\ ab <=> (w > 0 /\ h > 0)
        /\ (w = 0 \/ h = 0) => ~ab

(* C21's case: checkAABBCollision has been called, both ways, on two       *)
(* rectangles that share the whole of an edge, and has returned FALSE.     *)
C21_Witness ==
  /\ ev.op = "aabb"
  /\ gameState.paddleLeft.x + gameState.paddleLeft.width = gameState.paddleRight.x
  /\ gameState.paddleLeft.y = gameState.paddleRight.y
  /\ gameState.paddleLeft.height = gameState.paddleRight.height
  /\ ev.key = << FALSE, FALSE >>

(* A quarter of the offset of height y from the paddle's centre line, kept *)
(* within 15 px per frame either way.                                      *)
Deflection(y, paddle) ==
  LET offset == y - (paddle.y + paddle.height \div 2)
      quarter == IF offset >= 0 THEN (offset * 25) \div 100
                 ELSE -(((-offset) * 25) \div 100)
  IN  IF quarter > 15 * Unit THEN 15 * Unit
      ELSE IF quarter < -15 * Unit THEN -15 * Unit
      ELSE quarter

C23_NeverPausedAndOver ==
  /\ [](\A i \in Games : ~(games[i].gamePaused /\ games[i].gameOver))
  /\ [][\A i \in Games :
          /\ (~games[i].gameOver /\ games'[i].gameOver) =>
               (ev'.op = "tick" /\ i = cur /\ ~games[i].gamePaused)
          /\ games[i].gameOver =>
               games'[i].gamePaused = games[i].gamePaused]_vars

(* C23's case: after a restart, a pause key-down has reached both the      *)
(* listeners of the finished game and those of the new one: the new game   *)
(* is paused, the finished one is not.                                     *)
C23_Witness ==
  /\ ev.op = "keydown"
  /\ ev.key = "P"
  /\ cur = 2
  /\ games[1].gameOver
  /\ Held(games[1], "p")
  /\ ~games[1].gamePaused
  /\ games[2].gamePaused

(* C24: in every GameState speedX is 0 exactly when the game is over;      *)
(* while it is not over, initialSpeed <= |speedX| <= ballMaxSpeed; a step  *)
(* that is not a serve never lowers |speedX| of a game that is not over,   *)
(* changes it only by a paddle bounce, and a serve puts it back to exactly *)
(* initialSpeed.                                                           *)
C24_SpeedXProfile ==
  /\ [](\A i \in Games :
          LET ball == games[i].ball
          IN  /\ (ball.speedX = 0) <=> games[i].gameOver
              /\ ~games[i].gameOver =>
                   /\ ball.initialSpeed <= Abs(ball.speedX)
                   /\ Abs(ball.speedX) <= CONFIG.ballMaxSpeed)
  /\ [][\A i \in Games :
          LET before == Abs(games[i].ball.speedX)
              after == Abs(games'[i].ball.speedX)
              ticked == i = cur /\ ev'.op = "tick"
              served == ticked /\ ev'.serves = 1
          IN  /\ served => after = games'[i].ball.initialSpeed
              /\ (~served /\ ~games'[i].gameOver) =>
                   /\ after >= before
                   /\ after # before =>
                        /\ ticked /\ ev'.bounce # "none"
                        /\ after = Min(MulDiv(before, CONFIG.ballSpeedIncreaseFactor, 1000),
                                       CONFIG.ballMaxSpeed)]_vars

(* C24's case: a frame of the program in which the right paddle has        *)
(* bounced the ball and |speedX| has grown from initialSpeed by 1.05.      *)
C24_Witness ==
  /\ ev.op = "tick"
  /\ ev.bounce = "right"
  /\ ~gameState.gameOver
  /\ gameState.ball.speedX = -((gameState.ball.initialSpeed * 105) \div 100)

(* C25: at the end of every updateGameState call, in a frame of the        *)
(* program or on its own, and in every state of the program between the    *)
(* calls, the ball of every GameState is vertically inside the field:      *)
(* radius <= ball.y <= fieldHeight - radius.                               *)
C25_BallInsideVertically ==
  (Updated(ev) \/ phase # "call") =>
    \A i \in Games :
      /\ games[i].ball.radius <= games[i].ball.y
      /\ games[i].ball.y <= games[i].canvas.height - games[i].ball.radius

(* C25's case: a frame of the program in which the integration took the    *)
(* ball past the top wall and the call ended with it on the boundary.      *)
C25_Witness ==
  /\ ev.op = "tick"
  /\ ev.wall = "top"
  /\ gameState.ball.y = gameState.ball.radius
  /\ gameState.ball.speedY > 0

(* C26: with the shipped configuration the ball cannot tunnel through a    *)
(* paddle.  In every updateGameState call on an active game: a ball whose  *)
(* bounding square was entirely in front of the face of the paddle it      *)
(* moves toward is not entirely behind that paddle's back edge at the      *)
(* collision test; a ball that overlaps that paddle horizontally and       *)
(* vertically at the test is bounced, and a bounced ball does not score;   *)
(* and no approach ends in a score without the ball having overlapped      *)
(* the paddle horizontally at the collision test of some frame.            *)
C26_NoTunnelling ==
  /\ [](ev.crossed # "none" => ev.key = "overlapped")
  /\ [][(Updated(ev') /\ ~gameState.gamePaused /\ ~gameState.gameOver) =>
          LET before == gameState.ball
              r == before.radius
              vx == before.speedX
              x0 == before.x
              x1 == x0 + vx
              y1 == before.y + before.speedY
              yT == IF y1 - r < 0 THEN r
                    ELSE IF y1 + r > gameState.canvas.height
                    THEN gameState.canvas.height - r
                    ELSE y1
              L == games'[cur].paddleLeft
              R == games'[cur].paddleRight
              OverL == /\ x1 - r < L.x + L.width /\ x1 + r > L.x
                       /\ yT - r < L.y + L.height /\ yT + r > L.y
              OverR == /\ x1 - r < R.x + R.width /\ x1 + r > R.x
                       /\ yT - r < R.y + R.height /\ yT + r > R.y
          IN  /\ (vx < 0 /\ x0 - r >= L.x + L.width) => x1 + r > L.x
              /\ (vx > 0 /\ x0 + r <= R.x) => x1 - r < R.x + R.width
              /\ (vx < 0 /\ OverL) => ev'.bounce = "left"
              /\ (vx > 0 /\ OverR) => ev'.bounce = "right"
              /\ ev'.bounce # "none" => ev'.crossed = "none"]_vars

(* C26's case: a ball at the cap, entirely in front of the left paddle,    *)
(* overlaps it at the next collision test and is bounced.                  *)
C26_Witness ==
  /\ ev.op = "update"
  /\ ev.key = "overlapped"
  /\ ev.bounce = "left"
  /\ gameState.ball.speedX = CONFIG.ballMaxSpeed

(* C27: the ball never stalls: the authoritative game is never simulated   *)
(* for more than ceil((fieldWidth + 2 x radius) / initialSpeed) frames in  *)
(* a row without a paddle bounce or a score.                               *)
C27_NeverStalls ==
  idle * CONFIG.ballInitialSpeed
    < CONFIG.canvasWidth + 2 * CONFIG.ballRadius + CONFIG.ballInitialSpeed

(* C28: across any number of restarts exactly one set of input listeners   *)
(* is registered, its number does not grow with the restarts, and one      *)
(* restart key press or button click replaces the GameState at most once.  *)
C28_OneListenerSet ==
  /\ [](Len(listeners) <= 1)
  /\ [][/\ Len(listeners') <= Max(Len(listeners), 1)
        /\ Len(games') <= Len(games) + 1]_vars

===========================================================================
